---- MODULE Spec2Model ----
(***************************************************************************)
(* Model of the multi-solution constrained greedy set-cover engine of      *)
(* src/multiple_coverage_analysis.py: find_team_coverage,                  *)
(* greedy_set_cover_with_required_team and find_alternative_solutions.     *)
(*                                                                         *)
(* Python dicts keep insertion order, and the code iterates them, so the   *)
(* raw mapping `events` and the coverage index `team_coverage` are         *)
(* sequences of records in insertion order.  Python lists are sequences;   *)
(* Python sets are sets.                                                   *)
(***************************************************************************)
EXTENDS Integers, Sequences, FiniteSets, TLC

\* ------------------------------------------------------------------ bounds
MaxTasks == 2          \* at most this many events (tasks) in the raw mapping
MaxEntries == 3        \* at most this many team entries over all event lists
MaxK == 2              \* max_solutions ranges over 0..MaxK

TeamNumbers == {0, 1, 2}                      \* team identifiers in the lists
MaxTeamNumberChoices == {0, 2}                \* values of max_team_number
ListChoices == {<<>>, <<2>>}                  \* excluded_teams / included_teams
EventNames == <<"e1", "e2", "e3", "e4", "e5">> \* the i-th key of the raw mapping

\* Python's None, for an int-or-None value (required_team, best_team).
None == -1

\* ------------------------------------------------------- Python primitives
ToSet(s) == {s[i] : i \in DOMAIN s}

InList(x, s) == \E i \in DOMAIN s : s[i] = x

\* Truth value of `required_team` in `if required_team`: None and 0 are false.
Truthy(x) == x # None /\ x # 0

Min2(a, b) == IF a <= b THEN a ELSE b
Max2(a, b) == IF a >= b THEN a ELSE b

\* Python s[:k]
Slice(s, k) ==
    IF k >= 0 THEN SubSeq(s, 1, Min2(k, Len(s)))
              ELSE SubSeq(s, 1, Max2(0, Len(s) + k))

\* ----------------------------------------------------------- raw mapping
EventKeys(ev) == {ev[i].name : i \in DOMAIN ev}

RECURSIVE TotalLen(_)
TotalLen(ls) == IF ls = <<>> THEN 0 ELSE Len(Head(ls)) + TotalLen(Tail(ls))

TeamLists == UNION {[1..k -> TeamNumbers] : k \in 0..MaxEntries}

RawMappings ==
    UNION {
      { [i \in 1..n |-> [name |-> EventNames[i], teams |-> ls[i]]] :
          ls \in {l \in [1..n -> TeamLists] : TotalLen(l) <= MaxEntries} }
      : n \in 0..MaxTasks }

\* ---------------------------------------------------- find_team_coverage
\* The condition of lines 127-128.
EligibleExclusionLoses(team, max_team_number, excluded, included) ==
    (team <= max_team_number /\ ~InList(team, excluded)) \/ InList(team, included)

EligibleStrictLimit(team, max_team_number, excluded, included) ==
    (team < max_team_number \/ InList(team, included)) /\ ~InList(team, excluded)

Eligible(team, max_team_number, excluded, included) ==
    (team <= max_team_number \/ InList(team, included)) /\ ~InList(team, excluded)

HasKey(tc, team) == \E i \in DOMAIN tc : tc[i].team = team

Keys(tc) == {tc[i].team : i \in DOMAIN tc}

\* team_coverage[team]
Lookup(tc, team) == tc[CHOOSE i \in DOMAIN tc : tc[i].team = team].events

\* team_to_events[team].append(event_name) on a defaultdict(list)
AddEvent(tc, team, name) ==
    IF HasKey(tc, team)
    THEN [i \in DOMAIN tc |->
            IF tc[i].team = team
            THEN [tc[i] EXCEPT !.events = Append(@, name)]
            ELSE tc[i]]
    ELSE Append(tc, [team |-> team, events |-> <<name>>])

\* The inner loop, `for team in teams`, from position j of the list.
RECURSIVE ScanTeams(_, _, _, _, _, _, _)
ScanTeams(tc, name, teams, j, max_team_number, excluded, included) ==
    IF j > Len(teams) THEN tc
    ELSE ScanTeams(
           IF Eligible(teams[j], max_team_number, excluded, included)
           THEN AddEvent(tc, teams[j], name) ELSE tc,
           name, teams, j + 1, max_team_number, excluded, included)

\* The outer loop, `for event_name, teams in events.items()`, from position i.
RECURSIVE ScanEvents(_, _, _, _, _, _)
ScanEvents(tc, ev, i, max_team_number, excluded, included) ==
    IF i > Len(ev) THEN tc
    ELSE ScanEvents(
           ScanTeams(tc, ev[i].name, ev[i].teams, 1,
                     max_team_number, excluded, included),
           ev, i + 1, max_team_number, excluded, included)

FindTeamCoverage(ev, max_team_number, excluded, included) ==
    ScanEvents(<<>>, ev, 1, max_team_number, excluded, included)

\* ------------------------------------------------- the greedy round's scan
\* len(set(team_events) & uncovered_events)
Coverage(team_events, uncovered) == Cardinality(ToSet(team_events) \cap uncovered)

\* One iteration of `for team, team_events in team_coverage.items()`:
\* best is [team, coverage], the locals best_team and best_coverage.
ScanStepKeepsBound(entry, selected, uncovered, best) ==
    IF InList(entry.team, selected) THEN best
    ELSE IF Coverage(entry.events, uncovered) > best.coverage
         THEN [team |-> entry.team, coverage |-> best.coverage]
         ELSE best

ScanStepAcceptsEqual(entry, selected, uncovered, best) ==
    IF InList(entry.team, selected) THEN best
    ELSE IF Coverage(entry.events, uncovered) >= best.coverage
         THEN [team |-> entry.team, coverage |-> Coverage(entry.events, uncovered)]
         ELSE best

ScanStep(entry, selected, uncovered, best) ==
    IF InList(entry.team, selected) THEN best
    ELSE IF Coverage(entry.events, uncovered) > best.coverage
         THEN [team |-> entry.team, coverage |-> Coverage(entry.events, uncovered)]
         ELSE best

RECURSIVE ScanBest(_, _, _, _, _)
ScanBest(tc, selected, uncovered, i, best) ==
    IF i > Len(tc) THEN best
    ELSE ScanBest(tc, selected, uncovered, i + 1,
                  ScanStep(tc[i], selected, uncovered, best))

\* best_team = None; best_coverage = 0; then the scan over team_coverage.
FindBestTeamFromOne(tc, selected, uncovered) ==
    ScanBest(tc, selected, uncovered, 1, [team |-> None, coverage |-> 1])

FindBestTeam(tc, selected, uncovered) ==
    ScanBest(tc, selected, uncovered, 1, [team |-> None, coverage |-> 0])

\* ----------------------------------- greedy_set_cover_with_required_team
\* Lines 138-147: the locals [selected, uncovered] before the while loop.
GreedyStartUnchecked(tc, ev, required) ==
    IF Truthy(required)
    THEN [selected |-> <<required>>,
          uncovered |-> EventKeys(ev) \ (IF HasKey(tc, required)
                                         THEN ToSet(Lookup(tc, required)) ELSE {})]
    ELSE [selected |-> <<>>, uncovered |-> EventKeys(ev)]

GreedyStartForgetsCoverage(tc, ev, required) ==
    IF Truthy(required) /\ HasKey(tc, required)
    THEN [selected |-> <<required>>, uncovered |-> EventKeys(ev)]
    ELSE [selected |-> <<>>, uncovered |-> EventKeys(ev)]

GreedyStart(tc, ev, required) ==
    IF Truthy(required) /\ HasKey(tc, required)
    THEN [selected |-> <<required>>,
          uncovered |-> EventKeys(ev) \ ToSet(Lookup(tc, required))]
    ELSE [selected |-> <<>>, uncovered |-> EventKeys(ev)]

\* Lines 169-170 (and 230-232): the locals after selecting team.
SelectTeam(tc, st, team) ==
    [selected |-> Append(st.selected, team),
     uncovered |-> st.uncovered \ (ToSet(Lookup(tc, team)) \cap st.uncovered)]

\* The while loop run to its end, from the locals st.
RECURSIVE GreedyLoop(_, _)
GreedyLoop(tc, st) ==
    IF st.uncovered = {} THEN st
    ELSE LET best == FindBestTeam(tc, st.selected, st.uncovered)
         IN  IF best.team = None THEN st
             ELSE GreedyLoop(tc, SelectTeam(tc, st, best.team))

\* A solution: the tuple (selected_teams, len(selected_teams)).
Solution(selected) == [teams |-> selected, count |-> Len(selected)]

GreedySetCoverWithRequiredTeam(ev, required, max_team_number, excluded, included) ==
    LET tc == FindTeamCoverage(ev, max_team_number, excluded, included)
    IN  Solution(GreedyLoop(tc, GreedyStart(tc, ev, required)).selected)

\* ---------------------------------------------- find_alternative_solutions
\* Lines 186-187.
RECURSIVE MultiEventScan(_, _)
MultiEventScan(tc, i) ==
    IF i > Len(tc) THEN <<>>
    ELSE (IF Len(tc[i].events) >= 2 THEN <<tc[i].team>> ELSE <<>>)
         \o MultiEventScan(tc, i + 1)

\* list.remove(x): drops the first occurrence of x.
RECURSIVE Remove(_, _)
Remove(s, x) ==
    IF s = <<>> THEN <<>>
    ELSE IF Head(s) = x THEN Tail(s) ELSE <<Head(s)>> \o Remove(Tail(s), x)

\* Lines 186-193.
MultiEventTeams(tc, required) ==
    LET multi == MultiEventScan(tc, 1)
    IN  IF Truthy(required)
        THEN <<required>> \o (IF InList(required, multi)
                              THEN Remove(multi, required) ELSE multi)
        ELSE multi

\* Lines 200-212: the locals [selected, uncovered] before the while loop.
AltStart(tc, ev, required, start) ==
    LET st0 == [selected |-> <<>>, uncovered |-> EventKeys(ev)]
        st1 == IF Truthy(required) /\ required # start /\ HasKey(tc, required)
               THEN [selected |-> <<required>>,
                     uncovered |-> st0.uncovered \ ToSet(Lookup(tc, required))]
               ELSE st0
    IN  IF HasKey(tc, start) THEN SelectTeam(tc, st1, start) ELSE st1

\* Lines 235-237.
AllCovered(tc, selected) == UNION {ToSet(Lookup(tc, t)) : t \in ToSet(selected)}

\* Line 239.
IsValidAnyCount(tc, selected, ev) == Cardinality(AllCovered(tc, selected)) <= Len(ev)

IsValid(tc, selected, ev) == Cardinality(AllCovered(tc, selected)) = Len(ev)

\* Line 242.
IsDifferentAsList(sols, selected) == ~\E i \in DOMAIN sols : sols[i].teams = selected

IsDifferent(sols, selected) ==
    ~\E i \in DOMAIN sols : ToSet(sols[i].teams) = ToSet(selected)

\* Lines 239-243.
AcceptPrepends(tc, ev, sols, selected) ==
    IF IsValid(tc, selected, ev) /\ IsDifferent(sols, selected)
    THEN <<Solution(selected)>> \o sols
    ELSE sols

Accept(tc, ev, sols, selected) ==
    IF IsValid(tc, selected, ev) /\ IsDifferent(sols, selected)
    THEN Append(sols, Solution(selected))
    ELSE sols

\* Line 183.
RecordFirstIfNonEmpty(sols, sol) ==
    IF sol.teams # <<>> THEN Append(sols, sol) ELSE sols

RecordFirst(sols, sol) == Append(sols, sol)

\* Line 245.
ReturnedUnsliced(sols, k) == sols

Returned(sols, k) == Slice(sols, k)

\* The for loop of line 196 from position i of the seed list.
RECURSIVE AltLoop(_, _, _, _, _, _)
AltLoop(tc, ev, required, seeds, i, sols) ==
    IF i > Len(seeds) THEN sols
    ELSE IF seeds[i] = required /\ Len(sols) > 0
         THEN AltLoop(tc, ev, required, seeds, i + 1, sols)
         ELSE AltLoop(tc, ev, required, seeds, i + 1,
                      Accept(tc, ev, sols,
                             GreedyLoop(tc, AltStart(tc, ev, required, seeds[i])).selected))

FindAlternativeSolutions(ev, required, k, max_team_number, excluded, included) ==
    LET tc == FindTeamCoverage(ev, max_team_number, excluded, included)
        s1 == GreedySetCoverWithRequiredTeam(ev, required, max_team_number,
                                             excluded, included)
    IN  Returned(AltLoop(tc, ev, required, Slice(MultiEventTeams(tc, required), k),
                         1, RecordFirst(<<>>, s1)), k)

\* ------------------------------------------------------------ the program
\* One call of find_alternative_solutions, stepped through its loops.
VARIABLES
    events,            \* the raw mapping: event name -> list of team numbers
    required_team,     \* the mandatory team, or None
    max_solutions,     \* K
    max_team_number,   \* the threshold
    excluded_teams,
    included_teams,
    pc,                \* where the call is
    team_coverage,     \* the coverage index
    solutions,         \* the list being accumulated
    solution1,         \* what greedy_set_cover_with_required_team returned
    multi_event_teams, \* the seed list of line 196, already sliced
    seed_idx,          \* position of the for loop in the seed list
    uncovered_events,
    selected_teams,
    best_team,         \* the team chosen by the last scan, or None
    best_coverage,     \* its marginal coverage
    result,            \* the returned list
    outcome,           \* how main ended; "direct_call" when main is not the caller
    verified,          \* main: per returned solution, "full coverage verified"
    min_teams,         \* main: the "minimum teams needed" figure
    optimal_solutions  \* main: the solutions counted as optimal

inputs == <<events, required_team, max_solutions, max_team_number,
            excluded_teams, included_teams>>

report == <<outcome, verified, min_teams, optimal_solutions>>

vars == <<events, required_team, max_solutions, max_team_number, excluded_teams,
          included_teams, pc, team_coverage, solutions, solution1,
          multi_event_teams, seed_idx, uncovered_events, selected_teams,
          best_team, best_coverage, result, outcome, verified, min_teams,
          optimal_solutions>>

Init ==
    /\ events \in RawMappings
    /\ required_team \in {None} \cup TeamNumbers
    /\ max_solutions \in 0..MaxK
    /\ max_team_number \in MaxTeamNumberChoices
    /\ excluded_teams \in ListChoices
    /\ included_teams \in ListChoices
    /\ pc = "find_alternative_solutions"
    /\ team_coverage = <<>>
    /\ solutions = <<>>
    /\ solution1 = Solution(<<>>)
    /\ multi_event_teams = <<>>
    /\ seed_idx = 0
    /\ uncovered_events = {}
    /\ selected_teams = <<>>
    /\ best_team = None
    /\ best_coverage = 0
    /\ result = <<>>
    /\ outcome = "direct_call"
    /\ verified = <<>>
    /\ min_teams = 0
    /\ optimal_solutions = <<>>

\* Lines 178-182 and, inside the call of line 182, lines 138-147.
EnterGreedy ==
    /\ pc = "find_alternative_solutions"
    /\ LET tc == FindTeamCoverage(events, max_team_number, excluded_teams,
                                  included_teams)
           st == GreedyStart(tc, events, required_team)
       IN  /\ team_coverage' = tc
           /\ selected_teams' = st.selected
           /\ uncovered_events' = st.uncovered
    /\ solutions' = <<>>
    /\ pc' = "greedy_while"
    /\ UNCHANGED <<inputs, report, solution1, multi_event_teams, seed_idx, best_team,
                   best_coverage, result>>

\* One round of a while loop that selects a team: lines 149-172 when at is
\* "greedy_while", lines 215-232 when at is "alt_while".
Round(at) ==
    /\ pc = at
    /\ uncovered_events # {}
    /\ LET best == FindBestTeam(team_coverage, selected_teams, uncovered_events)
           st == SelectTeam(team_coverage,
                            [selected |-> selected_teams,
                             uncovered |-> uncovered_events], best.team)
       IN  /\ best.team # None
           /\ best_team' = best.team
           /\ best_coverage' = best.coverage
           /\ selected_teams' = st.selected
           /\ uncovered_events' = st.uncovered
    /\ UNCHANGED <<inputs, report, pc, team_coverage, solutions, solution1,
                   multi_event_teams, seed_idx, result>>

\* The while loop is over: its condition is false, or line 165 / 227 breaks.
LoopEnds ==
    \/ uncovered_events = {}
    \/ FindBestTeam(team_coverage, selected_teams, uncovered_events).team = None

GreedyRound == Round("greedy_while")

\* Line 174, then lines 182-193 and the slice of line 196.
GreedyReturn ==
    /\ pc = "greedy_while"
    /\ LoopEnds
    /\ solution1' = Solution(selected_teams)
    /\ solutions' = RecordFirst(solutions, Solution(selected_teams))
    /\ multi_event_teams' =
           Slice(MultiEventTeams(team_coverage, required_team), max_solutions)
    /\ seed_idx' = 1
    /\ best_team' = IF uncovered_events = {} THEN best_team ELSE None
    /\ best_coverage' = IF uncovered_events = {} THEN best_coverage ELSE 0
    /\ pc' = "for_start_team"
    /\ UNCHANGED <<inputs, report, team_coverage, uncovered_events, selected_teams, result>>

\* Lines 196-198: a seed equal to the required team is skipped.
SkipSeed ==
    /\ pc = "for_start_team"
    /\ seed_idx <= Len(multi_event_teams)
    /\ multi_event_teams[seed_idx] = required_team /\ Len(solutions) > 0
    /\ seed_idx' = seed_idx + 1
    /\ UNCHANGED <<inputs, report, pc, team_coverage, solutions, solution1,
                   multi_event_teams, uncovered_events, selected_teams,
                   best_team, best_coverage, result>>

\* Lines 196-212: the next seed starts an alternative.
StartSeed ==
    /\ pc = "for_start_team"
    /\ seed_idx <= Len(multi_event_teams)
    /\ ~(multi_event_teams[seed_idx] = required_team /\ Len(solutions) > 0)
    /\ LET st == AltStart(team_coverage, events, required_team,
                          multi_event_teams[seed_idx])
       IN  /\ selected_teams' = st.selected
           /\ uncovered_events' = st.uncovered
    /\ pc' = "alt_while"
    /\ UNCHANGED <<inputs, report, team_coverage, solutions, solution1,
                   multi_event_teams, seed_idx, best_team, best_coverage, result>>

AltRound == Round("alt_while")

\* Lines 234-243, and on to the next seed.
AltCheck ==
    /\ pc = "alt_while"
    /\ LoopEnds
    /\ solutions' = Accept(team_coverage, events, solutions, selected_teams)
    /\ best_team' = IF uncovered_events = {} THEN best_team ELSE None
    /\ best_coverage' = IF uncovered_events = {} THEN best_coverage ELSE 0
    /\ seed_idx' = seed_idx + 1
    /\ pc' = "for_start_team"
    /\ UNCHANGED <<inputs, report, team_coverage, solution1, multi_event_teams,
                   uncovered_events, selected_teams, result>>

\* Line 245.
Return ==
    /\ pc = "for_start_team"
    /\ seed_idx > Len(multi_event_teams)
    /\ result' = Returned(solutions, max_solutions)
    /\ pc' = "done"
    /\ UNCHANGED <<inputs, report, team_coverage, solutions, solution1,
                   multi_event_teams, seed_idx, uncovered_events,
                   selected_teams, best_team, best_coverage>>

Next ==
    \/ EnterGreedy
    \/ GreedyRound
    \/ GreedyReturn
    \/ SkipSeed
    \/ StartSeed
    \/ AltRound
    \/ AltCheck
    \/ Return

Spec == Init /\ [][Next]_vars

\* ------------------------------------------------------------------- main
\* main from line 392 on: the event data has been loaded; team_number is an
\* int argument, never None.

\* Lines 392-456: how main goes on once the events are loaded.  The checks
\* are made in this order.
MainDecisionNoExclusionCheck(ev, required, excluded, tc) ==
    IF ev = <<>> THEN "no_events"
    ELSE IF ~HasKey(tc, required) THEN "required_not_found"
    ELSE "searching"

MainDecision(ev, required, excluded, tc) ==
    IF ev = <<>> THEN "no_events"
    ELSE IF InList(required, excluded) THEN "required_excluded"
    ELSE IF ~HasKey(tc, required) THEN "required_not_found"
    ELSE "searching"

\* Lines 484-486: team_coverage.get(team, []) over the teams of a solution.
MainAllCovered(tc, teams) ==
    UNION {IF HasKey(tc, t) THEN ToSet(Lookup(tc, t)) ELSE {} : t \in ToSet(teams)}

\* Line 488: the solution is reported as "Full coverage verified".
MainVerified(tc, ev, teams) == Cardinality(MainAllCovered(tc, teams)) = Len(ev)

\* Line 500: min(len(teams) for teams, _ in solutions), for a non-empty list.
MinTeams(sols) ==
    CHOOSE m \in {Len(sols[i].teams) : i \in DOMAIN sols} :
        \A i \in DOMAIN sols : m <= Len(sols[i].teams)

\* Line 501: [sol for sol in solutions if len(sol[0]) == min_teams]
RECURSIVE OptimalScan(_, _, _)
OptimalScan(sols, m, i) ==
    IF i > Len(sols) THEN <<>>
    ELSE (IF Len(sols[i].teams) = m THEN <<sols[i]>> ELSE <<>>)
         \o OptimalScan(sols, m, i + 1)

MainInit ==
    /\ events \in RawMappings
    /\ required_team \in TeamNumbers
    /\ max_solutions \in 0..MaxK
    /\ max_team_number \in MaxTeamNumberChoices
    /\ excluded_teams \in ListChoices
    /\ included_teams \in ListChoices
    /\ pc = "main"
    /\ team_coverage = <<>>
    /\ solutions = <<>>
    /\ solution1 = Solution(<<>>)
    /\ multi_event_teams = <<>>
    /\ seed_idx = 0
    /\ uncovered_events = {}
    /\ selected_teams = <<>>
    /\ best_team = None
    /\ best_coverage = 0
    /\ result = <<>>
    /\ outcome = "running"
    /\ verified = <<>>
    /\ min_teams = 0
    /\ optimal_solutions = <<>>

\* Lines 392-397, 414, 443-456: main returns early with an error or warning.
MainReturnsEarly ==
    /\ pc = "main"
    /\ LET tc == IF events = <<>> THEN <<>>
                 ELSE FindTeamCoverage(events, max_team_number, excluded_teams,
                                       included_teams)
           d == MainDecision(events, required_team, excluded_teams, tc)
       IN  /\ d # "searching"
           /\ team_coverage' = tc
           /\ outcome' = d
    /\ pc' = "main_returned"
    /\ UNCHANGED <<inputs, solutions, solution1, multi_event_teams, seed_idx,
                   uncovered_events, selected_teams, best_team, best_coverage,
                   result, verified, min_teams, optimal_solutions>>

\* Lines 392-476: the checks pass and main calls find_alternative_solutions.
MainSearches ==
    /\ pc = "main"
    /\ LET tc == FindTeamCoverage(events, max_team_number, excluded_teams,
                                  included_teams)
       IN  /\ MainDecision(events, required_team, excluded_teams, tc) = "searching"
           /\ team_coverage' = tc
    /\ outcome' = "searching"
    /\ pc' = "find_alternative_solutions"
    /\ UNCHANGED <<inputs, solutions, solution1, multi_event_teams, seed_idx,
                   uncovered_events, selected_teams, best_team, best_coverage,
                   result, verified, min_teams, optimal_solutions>>

\* Lines 478-525: the per-solution coverage report and the summary.
MainReports ==
    /\ pc = "done"
    /\ outcome = "searching"
    /\ verified' = [i \in DOMAIN result |->
                      MainVerified(team_coverage, events, result[i].teams)]
    /\ IF result # <<>>
       THEN /\ min_teams' = MinTeams(result)
            /\ optimal_solutions' = OptimalScan(result, MinTeams(result), 1)
            /\ outcome' = "recommendations"
       ELSE /\ UNCHANGED <<min_teams, optimal_solutions>>
            /\ outcome' = "no_valid_solutions"
    /\ pc' = "main_returned"
    /\ UNCHANGED <<inputs, team_coverage, solutions, solution1, multi_event_teams,
                   seed_idx, uncovered_events, selected_teams, best_team,
                   best_coverage, result>>

MainNext ==
    \/ MainReturnsEarly
    \/ MainSearches
    \/ EnterGreedy
    \/ GreedyRound
    \/ GreedyReturn
    \/ SkipSeed
    \/ StartSeed
    \/ AltRound
    \/ AltCheck
    \/ Return
    \/ MainReports

MainSpec == MainInit /\ [][MainNext]_vars

\* The stepped call returns what the function, computed at once, returns.
StepsAgreeWithFunction ==
    pc = "done" =>
        result = FindAlternativeSolutions(events, required_team, max_solutions,
                                          max_team_number, excluded_teams,
                                          included_teams)

\* ------------------------------------------------- vocabulary of the claims
\* The full set of tasks: the keys of the raw mapping.
Tasks == {events[i].name : i \in DOMAIN events}

\* The tasks whose list in the raw mapping contains team r.
TasksListing(r) == {events[i].name : i \in {j \in DOMAIN events : InList(r, events[j].teams)}}

\* The teams occurring in some task's list.
Occurring == UNION {ToSet(events[i].teams) : i \in DOMAIN events}

\* The tasks stored in the index under team r (none when r is no key).
IndexedTasks(r) ==
    UNION {ToSet(team_coverage[i].events) :
             i \in {j \in DOMAIN team_coverage : team_coverage[j].team = r}}

\* The tasks jointly covered by a sequence of teams.
CoveredBy(teams) == UNION {IndexedTasks(teams[i]) : i \in DOMAIN teams}

\* Marginal coverage of team r over the tasks still uncovered.
Marginal(r) == Cardinality(IndexedTasks(r) \cap uncovered_events)

\* The teams a selection round may choose from.
Unselected == Keys(team_coverage) \ ToSet(selected_teams)

\* A step that is a selection round of either greedy loop.
RoundTaken ==
    /\ pc \in {"greedy_while", "alt_while"}
    /\ pc' = pc
    /\ Len(selected_teams') = Len(selected_teams) + 1

Done == pc = "done"

\* ---------------------------------------------------------------- claims
\* C1: every returned solution other than Solution #1 is complete: the union
\* of the indexed tasks of its teams is the full set of tasks.
C1_AlternativesComplete ==
    Done => \A i \in 2..Len(result) : CoveredBy(result[i].teams) = Tasks

\* A run that returned an alternative next to Solution #1.
C1_Witness == Done /\ Len(result) >= 2 /\ CoveredBy(result[2].teams) = Tasks

\* C2: when the mandatory team is a key of the index, every returned solution
\* holds it at position 0.
C2_MandatoryFirstInEverySolution ==
    (Done /\ required_team # None /\ HasKey(team_coverage, required_team)) =>
        \A i \in DOMAIN result :
            /\ Len(result[i].teams) >= 1
            /\ result[i].teams[1] = required_team

\* C3: no team of the exclusion list is a key of the index, nor a member of
\* any solution, whatever the inclusion list and the threshold say.
C3_ExcludedNeverIndexed ==
    /\ \A i \in DOMAIN team_coverage : ~InList(team_coverage[i].team, excluded_teams)
    /\ \A i \in DOMAIN solutions :
          \A j \in DOMAIN solutions[i].teams :
              ~InList(solutions[i].teams[j], excluded_teams)
    /\ \A i \in DOMAIN result :
          \A j \in DOMAIN result[i].teams :
              ~InList(result[i].teams[j], excluded_teams)

\* A finished run in which an excluded team occurs in the raw mapping and is
\* also in the inclusion list and at or below the threshold.
C3_Witness ==
    /\ Done
    /\ Len(result) >= 1 /\ Len(result[1].teams) >= 1
    /\ \E r \in Occurring :
          /\ InList(r, excluded_teams)
          /\ InList(r, included_teams)
          /\ r <= max_team_number

\* C4: the index is the reference index: r is a key iff r occurs in some
\* task's list and is eligible; the tasks under r are the tasks listing r; no
\* key holds an empty collection.
C4_IndexIsReference ==
    pc # "find_alternative_solutions" =>
        /\ Keys(team_coverage) =
             {r \in Occurring :
                /\ r <= max_team_number \/ InList(r, included_teams)
                /\ ~InList(r, excluded_teams)}
        /\ \A i \in DOMAIN team_coverage :
              /\ ToSet(team_coverage[i].events) = TasksListing(team_coverage[i].team)
              /\ team_coverage[i].events # <<>>
        /\ \A i, j \in DOMAIN team_coverage :
              team_coverage[i].team = team_coverage[j].team => i = j

\* An index built from a mapping with a team at the threshold, a team above
\* it that the inclusion list admits, and a team above it that is left out.
C4_Witness ==
    /\ pc = "greedy_while"
    /\ \E r \in Keys(team_coverage) : r = max_team_number
    /\ \E r \in Keys(team_coverage) : r > max_team_number
    /\ \E r \in Occurring : r \notin Keys(team_coverage)

\* C5: no two returned solutions have the same set of teams.
C5_NoDuplicateSolutions ==
    Done => \A i, j \in DOMAIN result :
                i # j => ToSet(result[i].teams) # ToSet(result[j].teams)

\* A run where the last alternative built had the teams of Solution #1 in
\* another order, and the returned list still holds just Solution #1.
C5_Witness ==
    /\ Done
    /\ Len(result) = 1
    /\ selected_teams # result[1].teams
    /\ ToSet(selected_teams) = ToSet(result[1].teams)
    /\ CoveredBy(selected_teams) = Tasks

\* C6: for K >= 0 the returned list has at most K solutions.
C6_AtMostK == (Done /\ max_solutions >= 0) => Len(result) <= max_solutions

\* A run that accumulated more than K solutions before returning.
C6_Witness == Done /\ Len(solutions) > max_solutions /\ Len(result) = max_solutions

\* C7 as stated: for every K the first returned element is the solution of
\* greedy_set_cover_with_required_team on the same inputs.
C7_FirstIsPrimaryForEveryK ==
    Done =>
        /\ Len(result) >= 1
        /\ result[1] = GreedySetCoverWithRequiredTeam(
                           events, required_team, max_team_number,
                           excluded_teams, included_teams)

\* C7 amended: for every K >= 1 the first returned element is the solution of
\* greedy_set_cover_with_required_team on the same inputs, complete or not.
C7_FirstIsPrimaryForPositiveK ==
    (Done /\ max_solutions >= 1) =>
        /\ Len(result) >= 1
        /\ result[1] = solution1
        /\ result[1] = GreedySetCoverWithRequiredTeam(
                           events, required_team, max_team_number,
                           excluded_teams, included_teams)

\* A run with K >= 1 whose primary solution is incomplete and non-empty.
C7_Witness ==
    /\ Done
    /\ max_solutions >= 1
    /\ Len(result) >= 1
    /\ result[1].teams # <<>>
    /\ CoveredBy(result[1].teams) # Tasks

\* C8: in every selection round, among the unselected teams with the largest
\* marginal coverage the one with the smallest identifier is selected.
C8_TieBreakSmallestIdentifier ==
    [][RoundTaken =>
         \A t \in Unselected :
             (\A u \in Unselected : Marginal(t) >= Marginal(u)) => best_team' <= t]_vars

\* Raw mappings with the content of ev: the tasks in any order, and each
\* task's list in any order.
Perms(n) == {p \in [1..n -> 1..n] : \A i, j \in 1..n : p[i] = p[j] => i = j}

PermsOf(s) == {[i \in 1..Len(s) |-> s[p[i]]] : p \in Perms(Len(s))}

Reorderings(ev) ==
    UNION { {[i \in 1..Len(ev) |-> [name |-> e[i].name, teams |-> ls[i]]] :
               ls \in {l \in [1..Len(ev) -> TeamLists] :
                         \A i \in 1..Len(ev) : l[i] \in PermsOf(e[i].teams)}}
            : e \in PermsOf(ev) }

\* C9: a run on a raw mapping of the same content, only ordered differently,
\* returns the identical solution list.
C9_OrderInsensitive ==
    Done =>
        \A ev2 \in Reorderings(events) :
            FindAlternativeSolutions(ev2, required_team, max_solutions,
                                     max_team_number, excluded_teams,
                                     included_teams) = result

\* C10: in every selection round the selected team's marginal coverage is at
\* least 1 and at least that of every other unselected team of the index.
C10_GreedyMonotone ==
    [][RoundTaken =>
         /\ best_team' \in Unselected
         /\ selected_teams' = Append(selected_teams, best_team')
         /\ Marginal(best_team') >= 1
         /\ \A t \in Unselected : Marginal(best_team') >= Marginal(t)]_vars

\* A round has just selected a team ahead of another unselected team that
\* also covered an uncovered task, but fewer of them.
C10_Witness ==
    /\ pc = "greedy_while"
    /\ best_team # None
    /\ best_coverage >= 2
    /\ \E t \in Unselected :
          IndexedTasks(t) \cap IndexedTasks(best_team) # {}
          /\ Cardinality(IndexedTasks(t)) < best_coverage

\* main has returned.
MainReturned == pc = "main_returned"

GreedyReturned == pc \in {"for_start_team", "alt_while", "done"}

\* C12: when the mandatory team is no key of the index, the solution of
\* greedy_set_cover_with_required_team does not contain it and is the one
\* the same call returns with no mandatory team.
C12_AbsentMandatoryIsPlainGreedy ==
    (GreedyReturned /\ required_team # None /\ ~HasKey(team_coverage, required_team)) =>
        /\ ~InList(required_team, solution1.teams)
        /\ solution1 = GreedySetCoverWithRequiredTeam(
                           events, None, max_team_number, excluded_teams,
                           included_teams)

\* The greedy cover returned a non-empty solution for a non-zero mandatory
\* team that occurs in the events but is not eligible.
C12_Witness ==
    /\ GreedyReturned
    /\ Truthy(required_team)
    /\ required_team \in Occurring
    /\ ~HasKey(team_coverage, required_team)
    /\ solution1.teams # <<>>

\* C14: with an empty index (no task, or tasks and no eligible team) the
\* greedy cover returns the empty sequence with count 0, complete exactly
\* when there is no task, and for K >= 1 the returned list holds just it.
C14_DegenerateInput ==
    /\ (GreedyReturned /\ team_coverage = <<>>) =>
          /\ solution1 = [teams |-> <<>>, count |-> 0]
          /\ (CoveredBy(solution1.teams) = Tasks) <=> (events = <<>>)
    /\ (Done /\ team_coverage = <<>> /\ max_solutions >= 1) =>
          result = <<[teams |-> <<>>, count |-> 0]>>

\* A finished run with K >= 1 on tasks none of whose teams is eligible, with
\* a non-zero mandatory team configured.
C14_Witness ==
    /\ Done
    /\ max_solutions >= 1
    /\ events # <<>> /\ Occurring # {}
    /\ team_coverage = <<>>
    /\ Truthy(required_team)
    /\ result = <<[teams |-> <<>>, count |-> 0]>>

\* A finished run with K >= 1 on no task at all.
C14_WitnessNoTask ==
    Done /\ max_solutions >= 1 /\ events = <<>> /\ result = <<Solution(<<>>)>>

\* C13: a returned solution that does not cover every task is kept, is
\* reported by main as incomplete coverage, and is not counted in main's
\* summary: it is not among the solutions counted as optimal, whose size is
\* the "minimum teams needed".
C13_IncompleteNeverCountedAsSuccess ==
    (MainReturned /\ outcome \in {"recommendations", "no_valid_solutions"}) =>
        /\ DOMAIN verified = DOMAIN result
        /\ \A i \in DOMAIN result :
              CoveredBy(result[i].teams) # Tasks =>
                  /\ verified[i] = FALSE
                  /\ ~InList(result[i], optimal_solutions)

\* The example of the specification: tasks A, B, C, D; team 1 in the lists
\* of A and B, team 2 in the lists of B and C, team 3 in the list of D; the
\* tasks in any order, and the two teams of B in either order.
ExampleMappings ==
    UNION { PermsOf(<<[name |-> "A", teams |-> <<1>>],
                      [name |-> "B", teams |-> b],
                      [name |-> "C", teams |-> <<2>>],
                      [name |-> "D", teams |-> <<3>>]>>)
            : b \in {<<1, 2>>, <<2, 1>>} }

\* find_alternative_solutions called on the example: mandatory team 1,
\* threshold 10, no inclusion or exclusion list.
ExampleInit ==
    /\ events \in ExampleMappings
    /\ required_team = 1
    /\ max_solutions \in 0..MaxK
    /\ max_team_number = 10
    /\ excluded_teams = <<>>
    /\ included_teams = <<>>
    /\ pc = "find_alternative_solutions"
    /\ team_coverage = <<>>
    /\ solutions = <<>>
    /\ solution1 = Solution(<<>>)
    /\ multi_event_teams = <<>>
    /\ seed_idx = 0
    /\ uncovered_events = {}
    /\ selected_teams = <<>>
    /\ best_team = None
    /\ best_coverage = 0
    /\ result = <<>>
    /\ outcome = "direct_call"
    /\ verified = <<>>
    /\ min_teams = 0
    /\ optimal_solutions = <<>>

ExampleSpec == ExampleInit /\ [][Next]_vars

\* C15: on the example the primary solution is [1, 2, 3], of size 3, and
\* complete, in whatever order the tasks are presented.
C15_ExamplePrimaryIs123 ==
    GreedyReturned =>
        /\ solution1 = [teams |-> <<1, 2, 3>>, count |-> 3]
        /\ CoveredBy(solution1.teams) = Tasks

\* The tasks some team of the index covers.
Coverable == UNION {IndexedTasks(r) : r \in Keys(team_coverage)}

\* greedy_set_cover_with_required_team has just returned: its locals are
\* still in uncovered_events and selected_teams.
GreedyJustReturned == pc = "for_start_team" /\ seed_idx = 1

\* C16: the primary solution is complete iff the teams of the index jointly
\* cover every task; the loop stops with tasks uncovered only when no team of
\* the index covers any of them.
C16_PrimaryCompleteIffCoverable ==
    /\ GreedyReturned =>
          ((CoveredBy(solution1.teams) = Tasks) <=> (Coverable = Tasks))
    /\ GreedyJustReturned =>
          /\ uncovered_events = Tasks \ CoveredBy(solution1.teams)
          /\ uncovered_events \cap Coverable = {}

\* The greedy loop stopped with a task uncovered, a team selected and
\* another team of the index left unselected.
C16_Witness ==
    /\ GreedyJustReturned
    /\ uncovered_events # {}
    /\ solution1.teams # <<>>
    /\ Unselected # {}

\* C17: every seed that starts an alternative covers at least 2 distinct
\* tasks in the index.
C17_SeedsCoverTwoTasks ==
    pc = "alt_while" =>
        Cardinality(IndexedTasks(multi_event_teams[seed_idx])) >= 2

\* A solution is a sequence of pairwise distinct keys of the index, stored
\* with its length.
WellFormed(sol) ==
    /\ \A i, j \in DOMAIN sol.teams : sol.teams[i] = sol.teams[j] => i = j
    /\ \A i \in DOMAIN sol.teams : sol.teams[i] \in Keys(team_coverage)
    /\ sol.count = Len(sol.teams)

\* C18: every solution returned by greedy_set_cover_with_required_team and
\* by find_alternative_solutions is a sequence of pairwise distinct teams,
\* each a key of the index, and its count is the length of the sequence.
C18_SolutionsWellFormed ==
    /\ GreedyReturned => WellFormed(solution1)
    /\ \A i \in DOMAIN solutions : WellFormed(solutions[i])
    /\ \A i \in DOMAIN result : WellFormed(result[i])

\* A finished run that returned an alternative of two teams next to the
\* primary solution.
C18_Witness ==
    /\ Done
    /\ Len(result) >= 2
    /\ \E i \in DOMAIN result : result[i].count >= 2

\* C19: in both greedy loops, after the seeding and after every round, the
\* uncovered set is the full task set minus the tasks indexed under the
\* teams selected so far.
C19_UncoveredIsComplement ==
    pc \in {"greedy_while", "alt_while"} =>
        uncovered_events = Tasks \ CoveredBy(selected_teams)

\* An alternative seeded with the mandatory team and a seed, both covering
\* the same task, with another task still uncovered.
C19_Witness ==
    /\ pc = "alt_while"
    /\ Len(selected_teams) >= 2
    /\ uncovered_events # {}
    /\ uncovered_events # Tasks

\* The teams placed before the first round of the loop the call is in.
Seeded ==
    IF pc = "greedy_while"
    THEN GreedyStart(team_coverage, events, required_team).selected
    ELSE AltStart(team_coverage, events, required_team,
                  multi_event_teams[seed_idx]).selected

\* The rounds the current loop has run, plus the tasks it has yet to cover,
\* never exceed the number of tasks.
RoundsBounded ==
    pc \in {"greedy_while", "alt_while"} =>
        (Len(selected_teams) - Len(Seeded)) + Cardinality(uncovered_events)
            <= Cardinality(Tasks)

\* The call under the scheduling of a sequential program: it takes its next
\* step as long as it has one.
FairSpec == Spec /\ WF_vars(Next)

\* The call ends, under FairSpec.
CallEnds == <>Done

\* A bound on the steps the call has yet to take: at most one seed per
\* occurring team plus the mandatory one, and per seed its start, one round
\* per task and its check.
PerSeed == Cardinality(Tasks) + 2

MaxSeeds == Cardinality(Occurring) + 1

Rank ==
    CASE pc = "done" -> 0
      [] pc = "for_start_team" ->
            1 + (Len(multi_event_teams) + 1 - seed_idx) * PerSeed
      [] pc = "alt_while" ->
            2 + (Len(multi_event_teams) - seed_idx) * PerSeed
              + Cardinality(uncovered_events)
      [] pc = "greedy_while" ->
            2 + MaxSeeds * PerSeed + Cardinality(uncovered_events)
      [] OTHER -> 3 + MaxSeeds * PerSeed + Cardinality(Tasks)

\* C20: every round of either loop removes at least one task from the
\* uncovered set, so a loop runs at most as many rounds as there are tasks;
\* every step of the call lowers a natural-number bound on the steps left,
\* and the call always has a next step until it has returned.
C20_LoopsTerminate ==
    /\ [][RoundTaken => (uncovered_events' \subseteq uncovered_events
                         /\ uncovered_events' # uncovered_events)]_vars
    /\ [][Next => (RoundsBounded' /\ Rank' < Rank /\ Rank' >= 0)]_vars
    /\ [][Next => (Done' \/ (ENABLED Next)')]_vars

\* A loop has run as many rounds as there are tasks, two or more.
C20_Witness ==
    /\ pc \in {"greedy_while", "alt_while"}
    /\ Cardinality(Tasks) >= 2
    /\ Len(selected_teams) - Len(Seeded) = Cardinality(Tasks)
    /\ uncovered_events = {}

\* The tasks the i-th team of a sequence covers that the teams before it in
\* the sequence do not.
NewTasks(teams, i) == IndexedTasks(teams[i]) \ CoveredBy(SubSeq(teams, 1, i - 1))

\* The positions of a sequence whose team adds no task.
AddsNothing(teams) == {i \in DOMAIN teams : NewTasks(teams, i) = {}}

\* C21: every team of the primary solution covers, when it is selected, a
\* task the teams before it do not cover, so the primary solution has at most
\* as many teams as there are tasks; in an alternative solution only the seed
\* may add no task, so an alternative has at most one team more than there
\* are tasks.
C21_EverySelectionAddsATask ==
    /\ (pc = "greedy_while" \/ GreedyReturned) =>
          LET primary == IF pc = "greedy_while" THEN selected_teams
                         ELSE solution1.teams
          IN  /\ AddsNothing(primary) = {}
              /\ Len(primary) <= Cardinality(Tasks)
    /\ pc = "alt_while" =>
          /\ \A i \in AddsNothing(selected_teams) :
                selected_teams[i] = multi_event_teams[seed_idx]
          /\ Len(selected_teams) <= Cardinality(Tasks) + 1
    /\ Done =>
          \A n \in DOMAIN solutions : n >= 2 =>
              /\ Cardinality(AddsNothing(solutions[n].teams)) <= 1
              /\ Len(solutions[n].teams) <= Cardinality(Tasks) + 1

\* An accepted alternative whose seed added no task: it has one team more
\* than there are tasks.
C21_Witness ==
    /\ Done
    /\ Len(result) >= 2
    /\ Cardinality(AddsNothing(result[2].teams)) = 1
    /\ Len(result[2].teams) = Cardinality(Tasks) + 1

\* The seeds the loop of find_alternative_solutions does not skip.
TriedSeeds ==
    {i \in 1..Len(Slice(multi_event_teams, max_solutions)) :
        multi_event_teams[i] # required_team}

\* C22: if the primary solution is incomplete then, for K >= 1, the returned
\* list holds the primary solution alone: no alternative is accepted.
C22_IncompletePrimaryIsAlone ==
    (Done /\ max_solutions >= 1 /\ CoveredBy(solution1.teams) # Tasks) =>
        /\ result = <<solution1>>
        /\ solutions = <<solution1>>

\* A finished call whose primary solution is incomplete and that built an
\* alternative from a seed the primary solution does not contain.
C22_Witness ==
    /\ Done
    /\ max_solutions >= 1
    /\ CoveredBy(solution1.teams) # Tasks
    /\ \E i \in TriedSeeds : ~InList(multi_event_teams[i], solution1.teams)
    /\ result = <<solution1>>

====
